---- MODULE Spec2Model ----
(***************************************************************************)
(* Audio-to-Video Creator: the App wizard and its timeline, the export     *)
(* controls, the image editor's canvas pass and the clip creator.          *)
(*                                                                         *)
(* Times are counted in half seconds (UnitsPerSecond), the step of the     *)
(* clip duration slider, so that every duration of the program is an       *)
(* integer.  Percentages are integers as the sliders deliver them.         *)
(***************************************************************************)
EXTENDS Integers, Sequences, FiniteSets

\* ------------------------------------------------------------------ bounds

\* Largest number of items the timeline holds in the model.
MaxItems == 3
\* Date.now() returns values in 0..MaxClock.
MaxClock == 2
\* onExport calls of one export run are counted up to this number.
MaxCalls == 3
\* Largest number of assets of one kind made by MediaCreator (clips, edited
\* images) the timeline holds when another one is started.
MaxCreated == 1
\* Largest number of canvas.toBlob encodings in flight at once.
MaxPending == 2
\* Largest width and height of a source image of arbitrary size.
MaxSide == 7
\* Largest number of setInterval timers of AudioUploader set at once.
MaxIntervals == 3

\* --------------------------------------------------------------- constants

\* Model time units per second: the clip duration slider steps by 0.5 s.
UnitsPerSecond == 2
\* asset.duration || 3
DefaultItemDuration == 3
\* return prev + 5
ProgressStep == 5
\* if (prev >= 100)
ProgressDone == 100
\* canvas.width = 1920, canvas.height = 1080
CanvasWidth == 1920
CanvasHeight == 1080
\* return prev + 10
UploadStep == 10
\* if (prev >= 90)
UploadHold == 90
\* setUploadProgress(100)
UploadFull == 100

VARIABLES
  \* App
  audioFile,        \* 0 for null, else the audio duration in time units
  selectedStyle,    \* "null" or the id of a video style
  timelineItems,    \* sequence of TimelineItem records
  isGenerating,
  currentStep,
  now,              \* the value the last call of Date.now() returned
  \* AudioUploader
  isUploading,
  uploadProgress,
  uploadedFile,     \* 0 for null, else the duration of the uploaded audio
  uploadIntervals,  \* the number of setInterval timers of processAudioFile set
  audioLoading,     \* TRUE while the Audio element of processAudioFile loads
  uploadTimeout,    \* 0, or the duration of the audio whose 500 ms timeout is set
  \* VisualContentLibrary
  selectedAssets,   \* the ids of the assets marked as selected
  \* ExportControls
  selectedFormat,
  selectedQuality,
  isExporting,
  exportProgress,
  progressInterval, \* TRUE while the setInterval timer of handleExport is set
  onExportCalls,    \* calls of onExport since the last handleExport
  cancelRequested,  \* the user has asked to stop the running export
  keptProfile,      \* the <<format, quality>> the timer callback set by the last
                    \* handleExport keeps, <<>> before the first
  exportedProfile,  \* the arguments of the last onExport call since the last
                    \* handleExport, <<>> for none
  \* MediaCreator, image editor
  selectedImage,    \* the File being edited, NoFile for null
  imgElement,       \* the image the hidden <img> element holds, NoFile for none
  pendingLoad,      \* TRUE while a load started by imageRef.current.src = url runs
  brightness,
  contrast,
  saturation,
  selectedFilter,
  textOverlay,
  textColor,
  textSize,
  rotation,
  canvas,           \* the editor's canvas: its size and what was drawn on it
  editedImageUrl,   \* the blob the edited image URL points to, NoBlob for ''
  pendingBlobs,     \* the canvas.toBlob results whose callback has not run yet,
                    \* in the order of the calls
  deferBlobs,       \* FALSE: every toBlob callback runs before the next event;
                    \* TRUE: it may run after later events
  \* MediaCreator, clip creator
  selectedImages,   \* the Files selected for the clip, in selection order
  clipDuration,     \* seconds per image, in time units
  transition,
  isCreatingClip,
  clipRun,          \* the running createVideoClip call: what it captured, its
                    \* loop index i and its frames; NoRun when none runs
  clipPreview,      \* the first frame of the last clip, NoFrame for ''
  createdAsset      \* the asset handed to onAssetCreated last, NoAsset for none

appVars == <<audioFile, selectedStyle, timelineItems, isGenerating, currentStep, now,
             selectedAssets>>
uploadVars == <<isUploading, uploadProgress, uploadedFile, uploadIntervals,
                audioLoading, uploadTimeout>>
exportVars == <<selectedFormat, selectedQuality, isExporting, exportProgress,
                progressInterval, onExportCalls, cancelRequested, keptProfile,
                exportedProfile>>
paramVars == <<brightness, contrast, saturation, selectedFilter, textOverlay,
               textColor, textSize, rotation>>
blobVars == <<editedImageUrl, pendingBlobs, deferBlobs>>
editVars == <<selectedImage, imgElement, pendingLoad, paramVars, canvas, blobVars>>
clipVars == <<selectedImages, clipDuration, transition, isCreatingClip, clipRun,
              clipPreview, createdAsset>>
vars == <<appVars, uploadVars, exportVars, editVars, clipVars>>

\* ------------------------------------------------------------------ helpers

Min(a, b) == IF a < b THEN a ELSE b

\* Number.prototype.toString for a non-negative integer: its decimal digits.
RECURSIVE ToString(_)
ToString(n) == IF n < 10 THEN <<n>> ELSE ToString(n \div 10) \o <<n % 10>>

\* ------------------------------------------------------------------- data

\* The selectable library assets (duration 0: the asset has no duration).
mockImages == { [id |-> <<5>>, type |-> "image", duration |-> 0] }
mockVideos == { [id |-> <<5>>, type |-> "video", duration |-> 10 * UnitsPerSecond] }
mockClipart == { [id |-> <<7>>, type |-> "clipart", duration |-> 0] }
LibraryAssets == mockImages \cup mockVideos \cup mockClipart

videoStyles == {"music-video", "presentation", "slideshow"}

\* audio.duration values of the uploaded files
AudioDurations == {3 * UnitsPerSecond, 12 * UnitsPerSecond}

\* formats with one more entry.
formatsWithGif == {"mp4", "mov", "avi", "webm", "gif"}

formats == {"mp4", "mov", "avi", "webm"}
qualities == {"4k", "1080p", "720p", "480p"}

\* The resolution in the label of each entry of qualities.
qualityResolution ==
  [ q \in qualities |->
      CASE q = "4k" -> <<3840, 2160>>
        [] q = "1080p" -> <<1920, 1080>>
        [] q = "720p" -> <<1280, 720>>
        [] OTHER -> <<854, 480>> ]

\* ---------------------------------------------------------------- timeline

\* The place of a step in the order of the wizard's tabs.
StepIndex(step) ==
  CASE step = "upload" -> 0
    [] step = "style" -> 1
    [] step = "customize" -> 2
    [] OTHER -> 3

\* NewItem without the default of asset.duration || 3.
NewItemNoDefault(asset, items, clock) ==
  [ id |-> ToString(clock),
    asset |-> asset,
    startTime |-> 0,
    duration |-> asset.duration,
    position |-> Len(items) ]

\* const newItem: TimelineItem = {...}
NewItem(asset, items, clock) ==
  [ id |-> ToString(clock),
    asset |-> asset,
    startTime |-> 0,
    duration |-> IF asset.duration # 0 THEN asset.duration
                 ELSE DefaultItemDuration * UnitsPerSecond,
    position |-> Len(items) ]

\* App's onAssetSelect of the render in which the timeline was items:
\* setTimelineItems([...timelineItems, newItem])
AppOnAssetSelect(items, asset, clock) == Append(items, NewItem(asset, items, clock))

\* The number of items whose asset MediaCreator made under a name that
\* starts with prefix.
CreatedCount(items, prefix) ==
  Cardinality({ i \in DOMAIN items : /\ "name" \in DOMAIN items[i].asset
                                     /\ items[i].asset.name[1] = prefix })

\* timelineItems.filter(t => t.id !== item.id)
RemoveItem(items, item) ==
  LET keep(t) == t.id # item.id IN SelectSeq(items, keep)

\* [startTime, startTime + duration) of a and of b intersect
Overlap(a, b) ==
  /\ a.startTime < b.startTime + b.duration
  /\ b.startTime < a.startTime + a.duration

\* some unit of [0, total) is covered by no item
HasGap(items, total) ==
  \E t \in 0..(total - 1) :
    \A i \in DOMAIN items :
      ~(items[i].startTime <= t /\ t < items[i].startTime + items[i].duration)

\* ----------------------------------------------------------- audio uploader

InitUpload ==
  /\ isUploading = FALSE
  /\ uploadProgress = 0
  /\ uploadedFile = 0
  /\ uploadIntervals = 0
  /\ audioLoading = FALSE
  /\ uploadTimeout = 0

\* The updater handed to setUploadProgress by one tick of the 100 ms timer:
\* the next progress and whether the tick clears its timer.
UploadProgressUpdate(prev) ==
  IF prev >= UploadHold
  THEN [progress |-> UploadHold, clear |-> TRUE]
  ELSE [progress |-> prev + UploadStep, clear |-> FALSE]

\* ------------------------------------------------------------ image editor

\* null for a File
NoFile == [name |-> "", width |-> 0, height |-> 0]

\* The imported image files, with the natural size of their image.
ImageFiles ==
  { [name |-> "a.png", width |-> 4, height |-> 2],
    [name |-> "b.png", width |-> 3, height |-> 3],
    [name |-> "c.png", width |-> 2, height |-> 4] }

\* Values of the brightness, contrast and saturation sliders (0..200).
Percents == {100, 150}
\* Values of the rotation slider (-180..180): the right angles, whose sine
\* and cosine are integers.
Rotations == {-180, -90, 0, 90, 180}
\* Values of the text input, the colour input and the size slider (12..72).
Texts == {"", "Hi"}
Colors == {"#ffffff", "#ff0000"}
TextSizes == {12, 24}

\* A CSS filter function with its argument (percent, px or deg).
Stage(fn, arg) == [fn |-> fn, arg |-> arg]

\* const imageFilters: ImageFilter[]; a filter string is the sequence of its
\* filter functions.
imageFilters ==
  << [name |-> "None", filter |-> <<Stage("none", 0)>>],
     [name |-> "Sepia", filter |-> <<Stage("sepia", 100)>>],
     [name |-> "Grayscale", filter |-> <<Stage("grayscale", 100)>>],
     [name |-> "Blur", filter |-> <<Stage("blur", 2)>>],
     [name |-> "Brightness", filter |-> <<Stage("brightness", 150)>>],
     [name |-> "Contrast", filter |-> <<Stage("contrast", 150)>>],
     [name |-> "Saturate", filter |-> <<Stage("saturate", 200)>>],
     [name |-> "Hue Rotate", filter |-> <<Stage("hue-rotate", 90)>>],
     [name |-> "Invert", filter |-> <<Stage("invert", 100)>>],
     [name |-> "Vintage", filter |-> <<Stage("sepia", 50), Stage("contrast", 120),
                                      Stage("brightness", 110)>>],
     [name |-> "Cool", filter |-> <<Stage("hue-rotate", 180), Stage("saturate", 120)>>],
     [name |-> "Warm", filter |-> <<Stage("hue-rotate", 30), Stage("saturate", 130),
                                   Stage("brightness", 110)>>] >>

\* String.prototype.toLowerCase on the names of imageFilters.
ToLowerCase(name) ==
  CASE name = "None" -> "none"
    [] name = "Sepia" -> "sepia"
    [] name = "Grayscale" -> "grayscale"
    [] name = "Blur" -> "blur"
    [] name = "Brightness" -> "brightness"
    [] name = "Contrast" -> "contrast"
    [] name = "Saturate" -> "saturate"
    [] name = "Hue Rotate" -> "hue rotate"
    [] name = "Invert" -> "invert"
    [] name = "Vintage" -> "vintage"
    [] name = "Cool" -> "cool"
    [] name = "Warm" -> "warm"
    [] OTHER -> name

\* The values of the filter Select: filter.name.toLowerCase() of each entry.
FilterValues == { ToLowerCase(imageFilters[k].name) : k \in DOMAIN imageFilters }

\* FindFilter with the name compared as written, not in lower case.
FindFilterExact(selected) ==
  LET hits == { k \in DOMAIN imageFilters : imageFilters[k].name = selected } IN
    IF hits = {} THEN <<>>
    ELSE imageFilters[CHOOSE k \in hits : \A j \in hits : k <= j].filter

\* imageFilters.find(f => f.name.toLowerCase() === selectedFilter)?.filter || ''
FindFilter(selected) ==
  LET hits == { k \in DOMAIN imageFilters :
                  ToLowerCase(imageFilters[k].name) = selected } IN
    IF hits = {} THEN <<>>
    ELSE imageFilters[CHOOSE k \in hits : \A j \in hits : k <= j].filter

\* FilterString with a hue rotation by the rotation angle at its end.
FilterStringByRotation(p) ==
  << Stage("brightness", p.brightness), Stage("contrast", p.contrast),
     Stage("saturate", p.saturation) >>
  \o (IF p.selectedFilter # "none" THEN FindFilter(p.selectedFilter) ELSE <<>>)
  \o << Stage("hue-rotate", p.rotation) >>

\* The value assigned to ctx.filter before the image is drawn.
FilterString(p) ==
  << Stage("brightness", p.brightness), Stage("contrast", p.contrast),
     Stage("saturate", p.saturation) >>
  \o (IF p.selectedFilter # "none" THEN FindFilter(p.selectedFilter) ELSE <<>>)

\* Math.cos and Math.sin of deg * Math.PI / 180 for a right angle.
Cos(deg) == CASE deg = 0 -> 1 [] deg \in {90, -90} -> 0 [] OTHER -> -1
Sin(deg) == CASE deg = 90 -> 1 [] deg = -90 -> -1 [] OTHER -> 0

\* The transformation matrix of a 2d context: a point (x, y) is drawn at
\* (a*x + c*y + e, b*x + d*y + f).  e, f and all coordinates are counted in
\* half pixels, so that width / 2 is an integer.
IdentityMatrix == [a |-> 1, b |-> 0, c |-> 0, d |-> 1, e |-> 0, f |-> 0]

\* ctx.translate(tx, ty)
Translate(m, tx, ty) ==
  [m EXCEPT !.e = m.a * tx + m.c * ty + m.e, !.f = m.b * tx + m.d * ty + m.f]

\* ctx.rotate(deg * Math.PI / 180)
Rotate(m, deg) ==
  [m EXCEPT !.a = m.a * Cos(deg) + m.c * Sin(deg),
            !.b = m.b * Cos(deg) + m.d * Sin(deg),
            !.c = m.c * Cos(deg) - m.a * Sin(deg),
            !.d = m.d * Cos(deg) - m.b * Sin(deg)]

\* Where the matrix puts the point (x, y).
MapPoint(m, x, y) == <<m.a * x + m.c * y + m.e, m.b * x + m.d * y + m.f>>

\* The state of a 2d context after canvas.width or canvas.height is set.
DefaultContext ==
  [transform |-> IdentityMatrix, filter |-> <<>>, fillStyle |-> "#000000",
   font |-> 10, textAlign |-> "start"]

\* RotationTransform without the translation back from the centre.
RotationTransformNoBack(w, h, deg) ==
  Rotate(Translate(IdentityMatrix, w, h), deg)

\* translate(width / 2, height / 2); rotate(rotation); translate(-width / 2,
\* -height / 2) on the fresh context of a canvas of w x h pixels.
RotationTransform(w, h, deg) ==
  Translate(Rotate(Translate(IdentityMatrix, w, h), deg), -w, -h)

\* The editor parameters read by applyImageEdits.
Params ==
  [brightness |-> brightness, contrast |-> contrast, saturation |-> saturation,
   selectedFilter |-> selectedFilter, textOverlay |-> textOverlay,
   textColor |-> textColor, textSize |-> textSize, rotation |-> rotation]

\* An image without pixels: drawImage draws nothing of it.
ZeroArea(img) == img.width = 0 \/ img.height = 0

\* applyImageEdits past its guards: the canvas after the pass over the image
\* img that the <img> element holds (NoFile: no image is available, its
\* natural size is 0 x 0 and drawImage draws nothing).
ApplyImageEdits(img, p) ==
  LET w == img.width
      h == img.height
      ctx1 == [DefaultContext EXCEPT !.transform = RotationTransform(w, h, p.rotation),
                                     !.filter = FilterString(p)]
      imageOps == IF ZeroArea(img) THEN <<>>
                  ELSE << [op |-> "drawImage", what |-> img.name, x |-> 0, y |-> 0,
                           transform |-> ctx1.transform, filter |-> ctx1.filter,
                           fillStyle |-> ctx1.fillStyle, font |-> ctx1.font,
                           textAlign |-> ctx1.textAlign] >>
      ctx2 == [ctx1 EXCEPT !.filter = <<>>, !.fillStyle = p.textColor,
                           !.font = p.textSize, !.textAlign = "center"]
      textOps == IF p.textOverlay = "" THEN <<>>
                 ELSE << [op |-> "fillText", what |-> p.textOverlay, x |-> w, y |-> h,
                          transform |-> ctx2.transform, filter |-> ctx2.filter,
                          fillStyle |-> ctx2.fillStyle, font |-> ctx2.font,
                          textAlign |-> ctx2.textAlign] >>
  IN [width |-> w, height |-> h, ops |-> imageOps \o textOps]

\* null for a Blob
NoBlob == [width |-> 0, height |-> 0, ops |-> <<>>]

\* The blob canvas.toBlob hands to its callback: the encoded picture of the
\* canvas as it is at the call, null for a canvas without pixels.
ToBlob(c) == IF c.width = 0 \/ c.height = 0 THEN NoBlob ELSE c

\* if (blob) { setEditedImageUrl(URL.createObjectURL(blob)) }
BlobCallback(url, blob) == IF blob # NoBlob THEN blob ELSE url

InitEdit ==
  /\ selectedImage = NoFile
  /\ imgElement = NoFile
  /\ pendingLoad = FALSE
  /\ brightness = 100
  /\ contrast = 100
  /\ saturation = 100
  /\ selectedFilter = "none"
  /\ textOverlay = ""
  /\ textColor = "#ffffff"
  /\ textSize = 24
  /\ rotation = 0
  /\ canvas = [width |-> 300, height |-> 150, ops |-> <<>>]
  /\ editedImageUrl = NoBlob
  /\ pendingBlobs = <<>>

\* canvas.toBlob(callback) on the canvas c: the callback is run at once or
\* joins the callbacks in flight.
ToBlobCall(c) ==
  /\ IF deferBlobs
     THEN /\ Len(pendingBlobs) < MaxPending
          /\ pendingBlobs' = Append(pendingBlobs, ToBlob(c))
          /\ editedImageUrl' = editedImageUrl
     ELSE /\ pendingBlobs' = pendingBlobs
          /\ editedImageUrl' = BlobCallback(editedImageUrl, ToBlob(c))
  /\ deferBlobs' = deferBlobs

\* The two effects that run after a render that changed the selected image
\* or a parameter: the first starts loading the selected image into the
\* <img> element, the second calls applyImageEdits at once.
RunEffects ==
  /\ pendingLoad' = TRUE
  /\ imgElement' = imgElement
  /\ canvas' = ApplyImageEdits(imgElement, Params')
  /\ ToBlobCall(canvas')

\* The Edit button of an imported image.
SelectImage ==
  /\ \E file \in ImageFiles : file # selectedImage /\ selectedImage' = file
  /\ UNCHANGED paramVars
  /\ RunEffects
  /\ UNCHANGED <<uploadVars, appVars, exportVars, clipVars>>

\* imageRef.current.onload: the <img> element holds the selected image.
ImageLoaded ==
  /\ pendingLoad
  /\ pendingLoad' = FALSE
  /\ imgElement' = selectedImage
  /\ canvas' = ApplyImageEdits(selectedImage, Params)
  /\ ToBlobCall(canvas')
  /\ UNCHANGED <<selectedImage, paramVars>>
  /\ UNCHANGED <<uploadVars, appVars, exportVars, clipVars>>

\* The callback of one canvas.toBlob call in flight runs.
BlobDone ==
  /\ \E k \in DOMAIN pendingBlobs :
       /\ editedImageUrl' = BlobCallback(editedImageUrl, pendingBlobs[k])
       /\ pendingBlobs' = SubSeq(pendingBlobs, 1, k - 1)
                            \o SubSeq(pendingBlobs, k + 1, Len(pendingBlobs))
  /\ UNCHANGED <<selectedImage, imgElement, pendingLoad, paramVars, canvas, deferBlobs>>
  /\ UNCHANGED <<uploadVars, appVars, exportVars, clipVars>>

\* const asset: VisualAsset = {...} of saveEditedImage
EditedAsset(url, file, clock) ==
  [ id |-> ToString(clock),
    type |-> "image",
    name |-> <<"Edited_", file.name>>,
    duration |-> 0,
    url |-> url ]

\* Save to Library is clicked (the button is enabled while editedImageUrl
\* is set): the asset goes to onAssetCreated, App's onAssetSelect of the
\* current render.  Date.now() returns t for the asset and u for the item.
saveEditedImage ==
  /\ currentStep = "customize"
  /\ selectedImage # NoFile
  /\ editedImageUrl # NoBlob
  /\ Len(timelineItems) < MaxItems
  /\ CreatedCount(timelineItems, "Edited_") < MaxCreated
  /\ \E t \in now..MaxClock : \E u \in t..MaxClock :
       /\ now' = u
       /\ timelineItems' = AppOnAssetSelect(timelineItems,
                              EditedAsset(editedImageUrl, selectedImage, t), u)
  /\ UNCHANGED <<audioFile, selectedStyle, isGenerating, currentStep, selectedAssets>>
  /\ UNCHANGED <<uploadVars, exportVars, editVars, clipVars>>

\* The editor controls are shown while an image is selected.
SetBrightness ==
  /\ selectedImage # NoFile
  /\ \E v \in Percents : v # brightness /\ brightness' = v
  /\ UNCHANGED <<selectedImage, contrast, saturation, selectedFilter, textOverlay,
                 textColor, textSize, rotation>>
  /\ RunEffects
  /\ UNCHANGED <<uploadVars, appVars, exportVars, clipVars>>

SetContrast ==
  /\ selectedImage # NoFile
  /\ \E v \in Percents : v # contrast /\ contrast' = v
  /\ UNCHANGED <<selectedImage, brightness, saturation, selectedFilter, textOverlay,
                 textColor, textSize, rotation>>
  /\ RunEffects
  /\ UNCHANGED <<uploadVars, appVars, exportVars, clipVars>>

SetSaturation ==
  /\ selectedImage # NoFile
  /\ \E v \in Percents : v # saturation /\ saturation' = v
  /\ UNCHANGED <<selectedImage, brightness, contrast, selectedFilter, textOverlay,
                 textColor, textSize, rotation>>
  /\ RunEffects
  /\ UNCHANGED <<uploadVars, appVars, exportVars, clipVars>>

SetRotation ==
  /\ selectedImage # NoFile
  /\ \E v \in Rotations : v # rotation /\ rotation' = v
  /\ UNCHANGED <<selectedImage, brightness, contrast, saturation, selectedFilter,
                 textOverlay, textColor, textSize>>
  /\ RunEffects
  /\ UNCHANGED <<uploadVars, appVars, exportVars, clipVars>>

SetSelectedFilter ==
  /\ selectedImage # NoFile
  /\ \E v \in FilterValues : v # selectedFilter /\ selectedFilter' = v
  /\ UNCHANGED <<selectedImage, brightness, contrast, saturation, textOverlay,
                 textColor, textSize, rotation>>
  /\ RunEffects
  /\ UNCHANGED <<uploadVars, appVars, exportVars, clipVars>>

SetTextOverlay ==
  /\ selectedImage # NoFile
  /\ \E v \in Texts : v # textOverlay /\ textOverlay' = v
  /\ UNCHANGED <<selectedImage, brightness, contrast, saturation, selectedFilter,
                 textColor, textSize, rotation>>
  /\ RunEffects
  /\ UNCHANGED <<uploadVars, appVars, exportVars, clipVars>>

SetTextColor ==
  /\ selectedImage # NoFile
  /\ \E v \in Colors : v # textColor /\ textColor' = v
  /\ UNCHANGED <<selectedImage, brightness, contrast, saturation, selectedFilter,
                 textOverlay, textSize, rotation>>
  /\ RunEffects
  /\ UNCHANGED <<uploadVars, appVars, exportVars, clipVars>>

SetTextSize ==
  /\ selectedImage # NoFile
  /\ \E v \in TextSizes : v # textSize /\ textSize' = v
  /\ UNCHANGED <<selectedImage, brightness, contrast, saturation, selectedFilter,
                 textOverlay, textColor, rotation>>
  /\ RunEffects
  /\ UNCHANGED <<uploadVars, appVars, exportVars, clipVars>>

\* The Reset button; nothing is rendered again when no value changes.
Reset ==
  /\ selectedImage # NoFile
  /\ brightness' = 100
  /\ contrast' = 100
  /\ saturation' = 100
  /\ selectedFilter' = "none"
  /\ textOverlay' = ""
  /\ rotation' = 0
  /\ UNCHANGED <<selectedImage, textColor, textSize>>
  /\ Params' # Params
  /\ RunEffects
  /\ UNCHANGED <<uploadVars, appVars, exportVars, clipVars>>

\* ------------------------------------------------------------ clip creator

\* Values of the duration slider (1 s .. 10 s in steps of 0.5 s), in time
\* units: 3 s and 3.5 s.
ClipDurations == {6, 7}

\* const clipTransitions, the first two of its nine entries
clipTransitions == {"fade", "slide-left"}

\* The blend overlap of a fade between two images: 0.5 s, in time units.
FadeOverlap == 1

\* '' for a frame
NoFrame == [width |-> 0, height |-> 0, ops |-> <<>>]

NoRun == [images |-> <<>>, duration |-> 0, items |-> <<>>, i |-> 0, loading |-> FALSE,
          canvas |-> <<>>, frames |-> <<>>]
NoAsset == [id |-> <<>>, type |-> "", name |-> <<>>, duration |-> 0, url |-> NoFrame]

\* prev.includes(file) ? prev.filter(f => f !== file) : [...prev, file]
Toggle(prev, file) ==
  LET keep(f) == f # file IN
    IF \E k \in DOMAIN prev : prev[k] = file THEN SelectSeq(prev, keep)
    ELSE Append(prev, file)

\* A number n / d of the arithmetic of createVideoClip; 0 / 0 is NaN.
Rat(n, d) == [n |-> n, d |-> d]
RatSub(p, q) == Rat(p.n * q.d - q.n * p.d, p.d * q.d)
RatAdd(p, q) == Rat(p.n * q.d + q.n * p.d, p.d * q.d)
RatHalf(p) == Rat(p.n, 2 * p.d)
RatEq(p, q) == p.d # 0 /\ q.d # 0 /\ p.n * q.d = q.n * p.d
RatLe(p, q) == p.d > 0 /\ q.d > 0 /\ p.n * q.d <= q.n * p.d

\* aspectRatio > canvasAspectRatio, where aspectRatio = img.width / img.height
\* is Infinity for a height of 0 and NaN for 0 / 0.
WiderThanCanvas(img) ==
  IF img.height = 0 THEN img.width > 0
  ELSE img.width * CanvasHeight > CanvasWidth * img.height

\* FitRect with the comparison turned round: the rectangle covers the canvas.
FitRectCover(img) ==
  IF ~WiderThanCanvas(img)
  THEN LET drawHeight == Rat(CanvasWidth * img.height, img.width) IN
         [ w |-> Rat(CanvasWidth, 1), h |-> drawHeight, x |-> Rat(0, 1),
           y |-> RatHalf(RatSub(Rat(CanvasHeight, 1), drawHeight)) ]
  ELSE LET drawWidth == Rat(CanvasHeight * img.width, img.height) IN
         [ w |-> drawWidth, h |-> Rat(CanvasHeight, 1),
           x |-> RatHalf(RatSub(Rat(CanvasWidth, 1), drawWidth)), y |-> Rat(0, 1) ]

\* drawWidth, drawHeight, drawX, drawY of the image (fit to canvas)
FitRect(img) ==
  IF WiderThanCanvas(img)
  THEN LET drawHeight == Rat(CanvasWidth * img.height, img.width) IN
         [ w |-> Rat(CanvasWidth, 1), h |-> drawHeight, x |-> Rat(0, 1),
           y |-> RatHalf(RatSub(Rat(CanvasHeight, 1), drawHeight)) ]
  ELSE LET drawWidth == Rat(CanvasHeight * img.width, img.height) IN
         [ w |-> drawWidth, h |-> Rat(CanvasHeight, 1),
           x |-> RatHalf(RatSub(Rat(CanvasWidth, 1), drawWidth)), y |-> Rat(0, 1) ]

\* ClearRect that clears nothing.
ClearRectNone(ops) == ops

\* ctx.clearRect(0, 0, canvas.width, canvas.height) on a canvas holding ops
ClearRect(ops) == <<>>

\* ctx.drawImage(img, drawX, drawY, drawWidth, drawHeight) on a canvas holding
\* ops: nothing is drawn of an image without pixels.
DrawFit(ops, img) ==
  IF ZeroArea(img) THEN ops
  ELSE Append(ops, [what |-> img.name, rect |-> FitRect(img)])

\* img.onload of createVideoClip up to canvas.toDataURL(): the canvas after
\* the image is drawn on the canvas that held ops.
DrawFrame(ops, img) == DrawFit(ClearRect(ops), img)

\* canvas.toDataURL() of the 1920 x 1080 canvas holding ops
ToDataURL(ops) == [width |-> CanvasWidth, height |-> CanvasHeight, ops |-> ops]

\* The frame of an image: the picture of a canvas on which the image alone
\* is drawn, fit to the canvas.
Frame(file) == ToDataURL(DrawFrame(<<>>, file))

\* frames.push with the frame put in front.
PushFront(frames, frame) == <<frame>> \o frames

\* frames.push(canvas.toDataURL())
Push(frames, frame) == Append(frames, frame)

\* duration: selectedImages.length * clipDuration
ClipAssetDuration(n, d) == n * d

\* const asset: VisualAsset = {...} of createVideoClip
ClipAsset(run, clock) ==
  [ id |-> ToString(clock),
    type |-> "video",
    name |-> <<"Clip_", Len(run.images), "_images">>,
    duration |-> ClipAssetDuration(Len(run.images), run.duration),
    url |-> run.frames[1] ]

\* Total duration: {(selectedImages.length * clipDuration).toFixed(1)}s
TotalDurationShown == Len(selectedImages) * clipDuration

InitClip ==
  /\ selectedImages = <<>>
  /\ clipDuration = 3 * UnitsPerSecond
  /\ transition = "fade"
  /\ isCreatingClip = FALSE
  /\ clipRun = NoRun
  /\ clipPreview = NoFrame
  /\ createdAsset = NoAsset

\* An imported image is clicked in the clip creator.
ToggleImage ==
  /\ \E file \in ImageFiles : selectedImages' = Toggle(selectedImages, file)
  /\ UNCHANGED <<clipDuration, transition, isCreatingClip, clipRun, clipPreview,
                 createdAsset>>
  /\ UNCHANGED <<uploadVars, appVars, exportVars, editVars>>

\* The Duration per Image slider.
SetClipDuration ==
  /\ \E v \in ClipDurations : v # clipDuration /\ clipDuration' = v
  /\ UNCHANGED <<selectedImages, transition, isCreatingClip, clipRun, clipPreview,
                 createdAsset>>
  /\ UNCHANGED <<uploadVars, appVars, exportVars, editVars>>

\* The Transition Effect select.
SetTransition ==
  /\ \E v \in clipTransitions : v # transition /\ transition' = v
  /\ UNCHANGED <<selectedImages, clipDuration, isCreatingClip, clipRun, clipPreview,
                 createdAsset>>
  /\ UNCHANGED <<uploadVars, appVars, exportVars, editVars>>

\* Create Clip is clicked: createVideoClip up to its first await.  The call
\* keeps the selectedImages, the clipDuration and the onAssetCreated of the
\* render it was made in, and with onAssetCreated the timelineItems of that
\* render; its canvas is new and the load of the first image is started.
createVideoClip ==
  /\ currentStep = "customize"
  /\ Len(selectedImages) # 0
  /\ ~isCreatingClip
  /\ Len(timelineItems) < MaxItems
  /\ CreatedCount(timelineItems, "Clip_") < MaxCreated
  /\ isCreatingClip' = TRUE
  /\ clipRun' = [images |-> selectedImages, duration |-> clipDuration,
                 items |-> timelineItems, i |-> 1, loading |-> TRUE, canvas |-> <<>>,
                 frames |-> <<>>]
  /\ UNCHANGED <<selectedImages, clipDuration, transition, clipPreview, createdAsset>>
  /\ UNCHANGED <<uploadVars, appVars, exportVars, editVars>>

\* img.onload of image i of the running call: its frame is drawn and
\* pushed; after the last image the call goes on to create the asset and to
\* hand it to the onAssetCreated it keeps, Date.now() returning t for the
\* asset and u for the timeline item.
ClipImageLoaded ==
  /\ isCreatingClip
  /\ clipRun.loading
  /\ clipRun.i <= Len(clipRun.images)
  /\ LET drawn == DrawFrame(clipRun.canvas, clipRun.images[clipRun.i])
         frames == Push(clipRun.frames, ToDataURL(drawn))
         run == [clipRun EXCEPT !.canvas = drawn, !.frames = frames,
                                !.i = clipRun.i + 1]
     IN IF clipRun.i < Len(clipRun.images)
        THEN /\ clipRun' = run
             /\ UNCHANGED <<isCreatingClip, clipPreview, createdAsset, now,
                            timelineItems>>
        ELSE \E t \in now..MaxClock : \E u \in t..MaxClock :
             /\ now' = u
             /\ clipPreview' = frames[1]
             /\ createdAsset' = ClipAsset(run, t)
             /\ timelineItems' = AppOnAssetSelect(clipRun.items, ClipAsset(run, t), u)
             /\ isCreatingClip' = FALSE
             /\ clipRun' = NoRun
  /\ UNCHANGED <<selectedImages, clipDuration, transition>>
  /\ UNCHANGED <<audioFile, selectedStyle, isGenerating, currentStep, selectedAssets>>
  /\ UNCHANGED <<uploadVars, exportVars, editVars>>

\* The load of image i of the running call ends with an error event (the
\* file cannot be decoded).  The call sets no img.onerror and its promise has
\* no reject: nothing runs, and the call stays at its await.
ClipImageError ==
  /\ isCreatingClip
  /\ clipRun.loading
  /\ clipRun.i <= Len(clipRun.images)
  /\ clipRun' = [clipRun EXCEPT !.loading = FALSE]
  /\ UNCHANGED <<selectedImages, clipDuration, transition, isCreatingClip, clipPreview,
                 createdAsset>>
  /\ UNCHANGED <<uploadVars, appVars, exportVars, editVars>>

\* ------------------------------------------------------------------- Init

InitApp ==
  /\ audioFile = 0
  /\ selectedStyle = "null"
  /\ timelineItems = <<>>
  /\ isGenerating = FALSE
  /\ currentStep = "upload"
  /\ now = 0
  /\ selectedAssets = {}
  /\ InitUpload

InitExport ==
  /\ selectedFormat = "mp4"
  /\ selectedQuality = "1080p"
  /\ isExporting = FALSE
  /\ exportProgress = 0
  /\ progressInterval = FALSE
  /\ onExportCalls = 0
  /\ cancelRequested = FALSE
  /\ keptProfile = <<>>
  /\ exportedProfile = <<>>

Init == InitApp /\ InitExport /\ InitEdit /\ InitClip /\ deferBlobs = FALSE

\* -------------------------------------------------------------- App actions

\* An audio file is dropped or chosen (the drop zone is shown at the upload
\* step while nothing is uploading or uploaded): processAudioFile up to its
\* await.
processAudioFile ==
  /\ currentStep = "upload"
  /\ ~isUploading
  /\ uploadedFile = 0
  /\ uploadIntervals < MaxIntervals
  /\ isUploading' = TRUE
  /\ uploadProgress' = 0
  /\ uploadIntervals' = uploadIntervals + 1
  /\ audioLoading' = TRUE
  /\ UNCHANGED <<uploadedFile, uploadTimeout>>
  /\ UNCHANGED <<appVars, exportVars, editVars, clipVars>>

\* One tick of a 100 ms timer set by processAudioFile, while AudioUploader
\* is mounted.
UploadTick ==
  /\ currentStep = "upload"
  /\ uploadIntervals > 0
  /\ LET u == UploadProgressUpdate(uploadProgress) IN
       /\ uploadProgress' = u.progress
       /\ uploadIntervals' = IF u.clear THEN uploadIntervals - 1 ELSE uploadIntervals
  /\ UNCHANGED <<isUploading, uploadedFile, audioLoading, uploadTimeout>>
  /\ UNCHANGED <<appVars, exportVars, editVars, clipVars>>

\* audio.onloadedmetadata: the progress is set to 100 and the 500 ms timeout
\* is set, keeping the audio file with its duration d.
onloadedmetadata ==
  /\ audioLoading
  /\ audioLoading' = FALSE
  /\ uploadProgress' = UploadFull
  /\ \E d \in AudioDurations : uploadTimeout' = d
  /\ UNCHANGED <<isUploading, uploadedFile, uploadIntervals>>
  /\ UNCHANGED <<appVars, exportVars, editVars, clipVars>>

\* audio.onerror rejects the promise: the catch block of processAudioFile.
onerror ==
  /\ audioLoading
  /\ audioLoading' = FALSE
  /\ isUploading' = FALSE
  /\ uploadProgress' = 0
  /\ UNCHANGED <<uploadedFile, uploadIntervals, uploadTimeout>>
  /\ UNCHANGED <<appVars, exportVars, editVars, clipVars>>

\* The 500 ms timeout set by onloadedmetadata fires: onAudioUpload is App's
\* handleAudioUpload.
AudioUploaded ==
  /\ uploadTimeout # 0
  /\ isUploading' = FALSE
  /\ uploadedFile' = uploadTimeout
  /\ uploadTimeout' = 0
  /\ audioFile' = uploadTimeout
  /\ currentStep' = "style"
  /\ UNCHANGED <<uploadProgress, uploadIntervals, audioLoading>>
  /\ UNCHANGED <<selectedStyle, timelineItems, isGenerating, now, selectedAssets>>
  /\ UNCHANGED <<exportVars, editVars, clipVars>>

\* handleAudioUpload called at any step of the wizard.
handleAudioUploadAnyStep ==
  /\ \E d \in AudioDurations : audioFile' = d
  /\ currentStep' = "style"
  /\ UNCHANGED <<selectedStyle, timelineItems, isGenerating, now, selectedAssets>>
  /\ UNCHANGED <<uploadVars, exportVars, editVars, clipVars>>

\* AudioUploader (shown at the upload step) hands over the loaded audio.
handleAudioUpload ==
  /\ currentStep = "upload"
  /\ \E d \in AudioDurations : audioFile' = d
  /\ currentStep' = "style"
  /\ UNCHANGED <<selectedStyle, timelineItems, isGenerating, now, selectedAssets>>
  /\ UNCHANGED <<uploadVars, exportVars, editVars, clipVars>>

\* A style card (shown at the style step) is clicked.
handleStyleSelect ==
  /\ currentStep = "style"
  /\ \E s \in videoStyles : selectedStyle' = s
  /\ currentStep' = "customize"
  /\ UNCHANGED <<audioFile, timelineItems, isGenerating, now, selectedAssets>>
  /\ UNCHANGED <<uploadVars, exportVars, editVars, clipVars>>

\* new Set([...prev, asset.id])
MarkSelected(prev, asset) == prev \cup {asset.id}

\* A library asset (shown at the customize step) is clicked: handleAssetClick
\* marks its id and calls onAssetSelect; Date.now() returns the time t, not
\* before the time it returned last.
onAssetSelect ==
  /\ currentStep = "customize"
  /\ Len(timelineItems) < MaxItems
  /\ \E asset \in LibraryAssets, t \in now..MaxClock :
       /\ now' = t
       /\ selectedAssets' = MarkSelected(selectedAssets, asset)
       /\ timelineItems' = AppOnAssetSelect(timelineItems, asset, t)
  /\ UNCHANGED <<audioFile, selectedStyle, isGenerating, currentStep>>
  /\ UNCHANGED <<uploadVars, exportVars, editVars, clipVars>>

\* The Remove button of a timeline item (TimelineEditor, customize step).
Remove ==
  /\ currentStep = "customize"
  /\ audioFile # 0
  /\ \E i \in DOMAIN timelineItems :
       timelineItems' = RemoveItem(timelineItems, timelineItems[i])
  /\ UNCHANGED <<audioFile, selectedStyle, isGenerating, currentStep, now,
                 selectedAssets>>
  /\ UNCHANGED <<uploadVars, exportVars, editVars, clipVars>>

\* Generate Video is clicked: handleGenerateVideo up to its await.
handleGenerateVideo ==
  /\ currentStep = "customize"
  /\ audioFile # 0
  /\ ~isGenerating
  /\ Len(timelineItems) # 0
  /\ isGenerating' = TRUE
  /\ UNCHANGED <<audioFile, selectedStyle, timelineItems, currentStep, now,
                 selectedAssets>>
  /\ UNCHANGED <<uploadVars, exportVars, editVars, clipVars>>

\* The 3000 ms timeout of handleGenerateVideo fires.
GenerateDone ==
  /\ isGenerating
  /\ isGenerating' = FALSE
  /\ currentStep' = "preview"
  /\ UNCHANGED <<audioFile, selectedStyle, timelineItems, now, selectedAssets>>
  /\ UNCHANGED <<uploadVars, exportVars, editVars, clipVars>>

\* --------------------------------------------------- ExportControls actions

\* handleExport called whether an export runs or not.
handleExportAnyTime ==
  /\ currentStep = "preview"
  /\ isExporting' = TRUE
  /\ exportProgress' = 0
  /\ progressInterval' = TRUE
  /\ onExportCalls' = 0
  /\ cancelRequested' = FALSE
  /\ keptProfile' = <<selectedFormat, selectedQuality>>
  /\ exportedProfile' = <<>>
  /\ UNCHANGED <<selectedFormat, selectedQuality>>
  /\ UNCHANGED <<uploadVars, appVars, editVars, clipVars>>

\* Export Video is clicked (the button is shown while not exporting); the
\* timer callback keeps the selectedFormat and selectedQuality of this render.
handleExport ==
  /\ currentStep = "preview"
  /\ ~isExporting
  /\ isExporting' = TRUE
  /\ exportProgress' = 0
  /\ progressInterval' = TRUE
  /\ onExportCalls' = 0
  /\ cancelRequested' = FALSE
  /\ keptProfile' = <<selectedFormat, selectedQuality>>
  /\ exportedProfile' = <<>>
  /\ UNCHANGED <<selectedFormat, selectedQuality>>
  /\ UNCHANGED <<uploadVars, appVars, editVars, clipVars>>

\* ProgressUpdate with the end test written prev > 100: one step too late.
ProgressUpdateLate(prev, exporting) ==
  IF prev > ProgressDone
  THEN [progress |-> ProgressDone, interval |-> FALSE, exporting |-> FALSE, called |-> TRUE]
  ELSE [progress |-> prev + ProgressStep, interval |-> TRUE, exporting |-> exporting,
        called |-> FALSE]

\* ProgressUpdate without its clearInterval: the timer stays set at the end.
ProgressUpdateNoClear(prev, exporting) ==
  IF prev >= ProgressDone
  THEN [progress |-> ProgressDone, interval |-> TRUE, exporting |-> FALSE, called |-> TRUE]
  ELSE [progress |-> prev + ProgressStep, interval |-> TRUE, exporting |-> exporting,
        called |-> FALSE]

\* The updater handed to setExportProgress by one tick of the 200 ms timer:
\* the next progress, whether the timer stays set, isExporting, and whether
\* onExport is called.
ProgressUpdate(prev, exporting) ==
  IF prev >= ProgressDone
  THEN [progress |-> ProgressDone, interval |-> FALSE, exporting |-> FALSE, called |-> TRUE]
  ELSE [progress |-> prev + ProgressStep, interval |-> TRUE, exporting |-> exporting,
        called |-> FALSE]

\* ExportArgs with the values selected at the time of the call.
ExportArgsSelected(kept, selected) == selected

\* onExport(selectedFormat, selectedQuality) in the timer callback: the
\* values the callback keeps, not the ones selected at the time of the call.
ExportArgs(kept, selected) == kept

\* One tick of the timer set by handleExport.
ExportTick ==
  /\ progressInterval
  /\ LET u == ProgressUpdate(exportProgress, isExporting) IN
       /\ exportProgress' = u.progress
       /\ progressInterval' = u.interval
       /\ isExporting' = u.exporting
       /\ onExportCalls' = IF u.called THEN Min(onExportCalls + 1, MaxCalls)
                           ELSE onExportCalls
       /\ exportedProfile' =
            IF u.called
            THEN ExportArgs(keptProfile, <<selectedFormat, selectedQuality>>)
            ELSE exportedProfile
  /\ UNCHANGED <<selectedFormat, selectedQuality, cancelRequested, keptProfile>>
  /\ UNCHANGED <<uploadVars, appVars, editVars, clipVars>>

\* <Select value={selectedFormat} onValueChange={setSelectedFormat}>
SelectFormat ==
  /\ currentStep = "preview"
  /\ \E f \in formats : f # selectedFormat /\ selectedFormat' = f
  /\ UNCHANGED <<selectedQuality, isExporting, exportProgress, progressInterval,
                 onExportCalls, cancelRequested, keptProfile, exportedProfile>>
  /\ UNCHANGED <<uploadVars, appVars, editVars, clipVars>>

\* <Select value={selectedQuality} onValueChange={setSelectedQuality}>
SelectQuality ==
  /\ currentStep = "preview"
  /\ \E q \in qualities : q # selectedQuality /\ selectedQuality' = q
  /\ UNCHANGED <<selectedFormat, isExporting, exportProgress, progressInterval,
                 onExportCalls, cancelRequested, keptProfile, exportedProfile>>
  /\ UNCHANGED <<uploadVars, appVars, editVars, clipVars>>

\* The user asks to stop the running export.  ExportControls has no handler
\* for it: no state of the component changes.
RequestCancel ==
  /\ isExporting
  /\ ~cancelRequested
  /\ cancelRequested' = TRUE
  /\ UNCHANGED <<selectedFormat, selectedQuality, isExporting, exportProgress,
                 progressInterval, onExportCalls, keptProfile, exportedProfile>>
  /\ UNCHANGED <<uploadVars, appVars, editVars, clipVars>>

\* -------------------------------------------------------------------- Spec

\* The App from its start: the wizard, the timeline, generation and export.
Next ==
  \/ handleAudioUpload
  \/ handleStyleSelect
  \/ onAssetSelect
  \/ Remove
  \/ handleGenerateVideo
  \/ GenerateDone
  \/ handleExport
  \/ ExportTick

Spec == Init /\ [][Next]_vars

\* ExportControls alone, from the moment the preview step shows it: the
\* wizard has an audio file, a style and a timeline of one library asset.
InitPreview ==
  /\ \E d \in AudioDurations : audioFile = d
  /\ selectedStyle = "slideshow"
  /\ \E asset \in LibraryAssets :
       /\ timelineItems = <<NewItem(asset, <<>>, 0)>>
       /\ selectedAssets = {asset.id}
  /\ isGenerating = FALSE
  /\ currentStep = "preview"
  /\ now = 0
  /\ InitUpload
  /\ InitExport
  /\ InitEdit
  /\ InitClip
  /\ deferBlobs = FALSE

NextExport ==
  \/ handleExport
  \/ ExportTick
  \/ SelectFormat
  \/ SelectQuality
  \/ RequestCancel

SpecExport == InitPreview /\ [][NextExport]_vars

\* The 200 ms timer of handleExport keeps firing while it is set.
SpecExportFair == SpecExport /\ WF_vars(ExportTick)

\* The image editor of MediaCreator alone.
InitEditor == InitApp /\ InitExport /\ InitEdit /\ InitClip /\ deferBlobs = FALSE

NextEdit ==
  \/ SelectImage
  \/ ImageLoaded
  \/ SetBrightness
  \/ SetContrast
  \/ SetSaturation
  \/ SetRotation
  \/ SetSelectedFilter
  \/ SetTextOverlay
  \/ SetTextColor
  \/ SetTextSize
  \/ Reset

SpecEdit == InitEditor /\ [][NextEdit]_vars

\* The App at the customize step, which shows the library with MediaCreator
\* and the timeline editor: an audio file and a style are chosen, the
\* timeline is empty.
InitAtCustomize ==
  /\ audioFile = 12 * UnitsPerSecond
  /\ selectedStyle = "slideshow"
  /\ timelineItems = <<>>
  /\ isGenerating = FALSE
  /\ currentStep = "customize"
  /\ now = 0
  /\ selectedAssets = {}
  /\ InitUpload
  /\ InitExport

InitStudio == InitAtCustomize /\ InitEdit /\ InitClip /\ deferBlobs = FALSE

\* The clip creator of MediaCreator.
NextClip ==
  \/ ToggleImage
  \/ SetClipDuration
  \/ SetTransition
  \/ createVideoClip
  \/ ClipImageLoaded
  \/ ClipImageError

SpecClip == InitStudio /\ [][NextClip]_vars

\* The load of an image that can be decoded ends with its load event.
SpecClipFair == SpecClip /\ WF_vars(ClipImageLoaded)

\* The clip creator once the images files are selected for a clip.
ClipReady(files) ==
  /\ selectedImages = files
  /\ clipDuration = 3 * UnitsPerSecond
  /\ transition = "fade"
  /\ isCreatingClip = FALSE
  /\ clipRun = NoRun
  /\ clipPreview = NoFrame
  /\ createdAsset = NoAsset

\* The clip creator with one image of any size selected.
InitFit ==
  /\ InitAtCustomize
  /\ InitEdit
  /\ deferBlobs = FALSE
  /\ \E w \in 0..MaxSide, h \in 0..MaxSide :
       ClipReady(<< [name |-> "x.svg", width |-> w, height |-> h] >>)

NextFit ==
  \/ createVideoClip
  \/ ClipImageLoaded

SpecFit == InitFit /\ [][NextFit]_vars

\* The image editor with toBlob callbacks that may run late.
InitRender == InitAtCustomize /\ InitEdit /\ InitClip /\ deferBlobs = TRUE

NextRender ==
  \/ SelectImage
  \/ ImageLoaded
  \/ SetRotation
  \/ SetTextOverlay
  \/ BlobDone

SpecRender == InitRender /\ [][NextRender]_vars

\* The image editor with its Save to Library button, toBlob callbacks
\* running late.
NextSave ==
  \/ SelectImage
  \/ ImageLoaded
  \/ SetTextOverlay
  \/ BlobDone
  \/ saveEditedImage

SpecSave == InitRender /\ [][NextSave]_vars

\* The image editor and the clip creator side by side, three images being
\* selected for a clip.
InitMedia ==
  /\ InitAtCustomize
  /\ InitEdit
  /\ deferBlobs = FALSE
  /\ ClipReady(<< [name |-> "a.png", width |-> 4, height |-> 2],
                  [name |-> "b.png", width |-> 3, height |-> 3],
                  [name |-> "c.png", width |-> 2, height |-> 4] >>)

NextMedia ==
  \/ SelectImage
  \/ ImageLoaded
  \/ SetRotation
  \/ SetTextOverlay
  \/ createVideoClip
  \/ ClipImageLoaded

SpecMedia == InitMedia /\ [][NextMedia]_vars

\* The editor's state once the image file is loaded and rendered with the
\* parameters of InitEdit.
EditorShows(file) ==
  /\ selectedImage = file
  /\ imgElement = file
  /\ pendingLoad = FALSE
  /\ brightness = 100
  /\ contrast = 100
  /\ saturation = 100
  /\ selectedFilter = "none"
  /\ textOverlay = ""
  /\ textColor = "#ffffff"
  /\ textSize = 24
  /\ rotation = 0
  /\ canvas = ApplyImageEdits(file, Params)
  /\ editedImageUrl = ToBlob(canvas)
  /\ pendingBlobs = <<>>

\* The customize step with the edited a.png ready to be saved and two
\* images selected for a clip.
InitCustomize ==
  /\ InitAtCustomize
  /\ EditorShows([name |-> "a.png", width |-> 4, height |-> 2])
  /\ deferBlobs = FALSE
  /\ ClipReady(<< [name |-> "a.png", width |-> 4, height |-> 2],
                  [name |-> "b.png", width |-> 3, height |-> 3] >>)

\* Every way an asset reaches the timeline: library clicks, saved images
\* and clips.
NextCustomize ==
  \/ onAssetSelect
  \/ SetClipDuration
  \/ createVideoClip
  \/ ClipImageLoaded
  \/ saveEditedImage

SpecCustomize == InitCustomize /\ [][NextCustomize]_vars

\* The timeline while clips are created: library clicks, removals and clips.
NextTimeline ==
  \/ onAssetSelect
  \/ Remove
  \/ createVideoClip
  \/ ClipImageLoaded

SpecTimeline == InitCustomize /\ [][NextTimeline]_vars

\* The first two steps of the wizard: AudioUploader from the start of the
\* App to the hand-over of the audio, and the choice of a style.
NextUpload ==
  \/ processAudioFile
  \/ UploadTick
  \/ onloadedmetadata
  \/ onerror
  \/ AudioUploaded
  \/ handleStyleSelect

SpecUpload == Init /\ [][NextUpload]_vars

\* ------------------------------------------------------------------ claims

\* C1: after any sequence of asset selections and removals, no two items of
\* the timeline have overlapping intervals [startTime, startTime+duration).
C1_NoOverlap ==
  \A i, j \in DOMAIN timelineItems :
    i # j => ~Overlap(timelineItems[i], timelineItems[j])

\* C2: the position values of the n timeline items are exactly 0..n-1 in
\* list order (also after a Remove), so no two items share a position.
C2_PositionsContiguous ==
  \A i \in DOMAIN timelineItems : timelineItems[i].position = i - 1

\* C3: during one export run exportProgress stays within [0,100] and does
\* not decrease from one step to the next (a step that starts a new export
\* begins a new run).
C3_ProgressMonotone ==
  /\ [](exportProgress >= 0 /\ exportProgress <= 100)
  /\ [][~(~isExporting /\ isExporting') => exportProgress' >= exportProgress]_vars

C3_Witness == isExporting /\ exportProgress = 100

\* C4: for a timeline that leaves a gap inside [0, audio duration] no
\* export does progress work: no progress tick occurs and onExport is not
\* called.
C4_GapRejectsExport ==
  (audioFile # 0 /\ HasGap(timelineItems, audioFile)) =>
    (exportProgress = 0 /\ onExportCalls = 0)

\* C5: once cancellation of a running export has been requested, no further
\* progress step is taken and onExport is not called for it.
C5_CancelStopsExport ==
  [][(isExporting /\ cancelRequested) =>
       (exportProgress' = exportProgress /\ onExportCalls' = onExportCalls)]_vars

\* C6: each started export produces exactly one terminal result: whenever
\* no export runs the timer is stopped and either none was started or
\* onExport was called exactly once with the progress at 100; onExport is
\* called only from progress 100; isExporting only becomes true by a new
\* handleExport; and a started export eventually ends.
C6_OneTerminalResult ==
  /\ [](isExporting => (progressInterval /\ onExportCalls = 0))
  /\ [](~isExporting =>
         /\ ~progressInterval
         /\ \/ (onExportCalls = 0 /\ exportProgress = 0)
            \/ (onExportCalls = 1 /\ exportProgress = 100))
  /\ [][onExportCalls' > onExportCalls => exportProgress = 100]_vars
  /\ [][(~isExporting /\ isExporting') =>
         (exportProgress' = 0 /\ onExportCalls' = 0)]_vars
  /\ (isExporting ~> (~isExporting /\ ~progressInterval /\ onExportCalls = 1))

C6_Witness ==
  ~isExporting /\ ~progressInterval /\ onExportCalls = 1 /\ exportProgress = 100

\* The drawImage and fillText operations of the canvas, by index.
ImageOps == { k \in DOMAIN canvas.ops : canvas.ops[k].op = "drawImage" }
TextOps == { k \in DOMAIN canvas.ops : canvas.ops[k].op = "fillText" }

\* C7: a non-empty text overlay is drawn after the image, with no colour
\* filter and no rotation applied to it (the context's matrix is the
\* identity), anchored at the canvas centre.
C7_TextUnfilteredUnrotated ==
  \A k \in TextOps : ImageOps # {} =>
    /\ k = Len(canvas.ops)
    /\ \A j \in ImageOps : j < k
    /\ canvas.ops[k].filter = <<>>
    /\ canvas.ops[k].transform = IdentityMatrix
    /\ MapPoint(canvas.ops[k].transform, canvas.ops[k].x, canvas.ops[k].y)
         = <<canvas.width, canvas.height>>

\* C8: the filter the image is drawn with is brightness, contrast and
\* saturation of the current values, in this order, followed by the catalog
\* entry of the selected filter exactly when it is not 'none'; the entry is
\* the one whose lower-case name is the selected value and is never empty.
C8_ColourStageOrder ==
  \A k \in ImageOps :
    LET f == canvas.ops[k].filter IN
      /\ Len(f) >= 3
      /\ f[1] = Stage("brightness", brightness)
      /\ f[2] = Stage("contrast", contrast)
      /\ f[3] = Stage("saturate", saturation)
      /\ (selectedFilter = "none") <=> (Len(f) = 3)
      /\ selectedFilter # "none" =>
           \E e \in DOMAIN imageFilters :
             /\ ToLowerCase(imageFilters[e].name) = selectedFilter
             /\ imageFilters[e].filter # <<>>
             /\ SubSeq(f, 4, Len(f)) = imageFilters[e].filter

C8_Witness ==
  /\ ImageOps # {}
  /\ selectedFilter = "hue rotate"
  /\ brightness = 150

\* The identity parameters of the transform.
IdentityParams ==
  /\ brightness = 100
  /\ contrast = 100
  /\ saturation = 100
  /\ rotation = 0
  /\ selectedFilter = "none"
  /\ textOverlay = ""

\* A filter function that leaves every pixel as it is.
IdentityStage(st) ==
  \/ st.fn \in {"brightness", "contrast", "saturate"} /\ st.arg = 100
  \/ st.fn \in {"sepia", "grayscale", "invert", "blur", "hue-rotate"} /\ st.arg = 0

\* C10: the editor starts with the identity parameters, and with them the
\* pass over a loaded image gives a canvas of the image's size on which the
\* image alone is drawn, at the origin, with the identity matrix and with
\* identity filter functions only.
C10_IdentityTransform ==
  /\ IdentityParams
  /\ [](IdentityParams /\ imgElement # NoFile =>
         /\ canvas.width = imgElement.width
         /\ canvas.height = imgElement.height
         /\ Len(canvas.ops) = 1
         /\ canvas.ops[1].op = "drawImage"
         /\ canvas.ops[1].what = imgElement.name
         /\ canvas.ops[1].x = 0 /\ canvas.ops[1].y = 0
         /\ canvas.ops[1].transform = IdentityMatrix
         /\ \A i \in DOMAIN canvas.ops[1].filter :
              IdentityStage(canvas.ops[1].filter[i]))

C10_Witness ==
  /\ IdentityParams
  /\ imgElement = selectedImage
  /\ imgElement.width = 3
  /\ Len(canvas.ops) = 1

\* C9: the duration stored on the asset of a clip of n images of d seconds
\* each, joined by fades of overlap w, is n*d - (n-1)*w.
C9_ClipDurationSubtractsOverlaps ==
  [][(isCreatingClip /\ ~isCreatingClip' /\ transition = "fade") =>
       createdAsset'.duration =
         Len(clipRun.images) * clipRun.duration
           - (Len(clipRun.images) - 1) * FadeOverlap]_vars

\* C11: every item of the timeline has a duration above 0 and a start time
\* of at least 0, whether its asset is a library asset, a saved edited
\* image or a created clip.
C11_ItemsWellFormed ==
  \A i \in DOMAIN timelineItems :
    timelineItems[i].duration > 0 /\ timelineItems[i].startTime >= 0

C11_Witness ==
  /\ CreatedCount(timelineItems, "Clip_") = 1
  /\ CreatedCount(timelineItems, "Edited_") = 1
  /\ \E i \in DOMAIN timelineItems : timelineItems[i].asset \in mockClipart

\* C12: asset ids are unique, so that a click marks the clicked asset and no
\* other: every library asset that becomes marked as selected in a step is
\* the asset that step added to the timeline.
C12_UniqueAssetIds ==
  [][\A a \in LibraryAssets :
       (a.id \in selectedAssets' /\ a.id \notin selectedAssets) =>
         a = timelineItems'[Len(timelineItems')].asset]_vars

\* C13: while a clip is created the frame list holds one frame for each of
\* the images before the one being loaded, frame k showing selected image
\* k, and a step of the run changes the list only by appending one frame.
C13_FramesInOrder ==
  /\ [](isCreatingClip =>
         /\ clipRun.i <= Len(clipRun.images)
         /\ Len(clipRun.frames) = clipRun.i - 1
         /\ \A k \in DOMAIN clipRun.frames :
              LET ops == clipRun.frames[k].ops IN
                ops # <<>> /\ ops[Len(ops)].what = clipRun.images[k].name)
  /\ [][(isCreatingClip /\ isCreatingClip') =>
         \/ clipRun'.frames = clipRun.frames
         \/ /\ Len(clipRun'.frames) = Len(clipRun.frames) + 1
            /\ SubSeq(clipRun'.frames, 1, Len(clipRun.frames)) = clipRun.frames]_vars

C13_Witness ==
  /\ isCreatingClip
  /\ Len(clipRun.frames) = 2
  /\ clipRun.images[1].name = "c.png"
  /\ clipRun.images[2].name = "a.png"

\* C14: an image with positive width and height is drawn into the 1920 x
\* 1080 canvas inside the canvas, with its own width : height ratio, over
\* the full width or the full height of the canvas, and with equal margins
\* left and right and equal margins above and below.
C14_FitToCanvas ==
  \A k \in DOMAIN clipPreview.ops :
    LET r == clipPreview.ops[k].rect
        img == selectedImages[1]
        W == Rat(CanvasWidth, 1)
        H == Rat(CanvasHeight, 1)
    IN /\ RatLe(Rat(0, 1), r.x) /\ RatLe(RatAdd(r.x, r.w), W)
       /\ RatLe(Rat(0, 1), r.y) /\ RatLe(RatAdd(r.y, r.h), H)
       /\ RatEq(Rat(r.w.n * img.height, r.w.d), Rat(r.h.n * img.width, r.h.d))
       /\ RatEq(r.w, W) \/ RatEq(r.h, H)
       /\ RatEq(r.x, RatSub(RatSub(W, r.x), r.w))
       /\ RatEq(r.y, RatSub(RatSub(H, r.y), r.h))

C14_Witness ==
  /\ Len(clipPreview.ops) = 1
  /\ selectedImages[1].width = 7
  /\ selectedImages[1].height = 3

\* C15: the edited image is not left stale: once the selected image is
\* loaded and no toBlob callback is outstanding, editedImageUrl is the
\* render of the selected image under the current parameters.
C15_NoStaleEditedImage ==
  ( /\ selectedImage # NoFile
    /\ imgElement = selectedImage
    /\ ~pendingLoad
    /\ pendingBlobs = <<>> )
  => editedImageUrl = ToBlob(ApplyImageEdits(selectedImage, Params))

\* C16: the outputs are functions of their inputs alone.  The editor's
\* canvas is the pass over the image the <img> element holds under the
\* current parameters, and a render with the same image and parameters
\* leaves it as it is; frame k of a clip is the frame of selected image k,
\* whatever was drawn before and whatever the clock shows.
C16_Deterministic ==
  /\ [](selectedImage # NoFile => canvas = ApplyImageEdits(imgElement, Params))
  /\ [][(imgElement # NoFile /\ imgElement' = imgElement /\ Params' = Params)
          => canvas' = canvas]_vars
  /\ [](\A k \in DOMAIN clipRun.frames :
          clipRun.frames[k] = Frame(clipRun.images[k]))
  /\ [](clipPreview # NoFrame => clipPreview = Frame(selectedImages[1]))

C16_Witness ==
  /\ Len(clipRun.frames) = 2
  /\ imgElement = selectedImage
  /\ rotation = 90
  /\ textOverlay = "Hi"

\* The canvas c shows a drawn image.
Drawn(c) == c.ops # <<>> /\ c.ops[1].op = "drawImage"

\* C17: the matrix the image is drawn with is the rotation about the canvas
\* centre for the rotation value and the canvas size, the filter it is drawn
\* with is the chain for brightness, contrast, saturation and the selected
\* filter whatever the other parameters are; a step that changes the filter
\* and not the rotation keeps the matrix, and a step that changes the
\* rotation and no colour parameter keeps the filter chain.
C17_StageIndependence ==
  /\ [](Drawn(canvas) =>
         /\ canvas.ops[1].transform
              = RotationTransform(canvas.width, canvas.height, rotation)
         /\ canvas.ops[1].filter
              = FilterString([Params EXCEPT !.rotation = 0, !.textOverlay = "",
                                            !.textColor = "", !.textSize = 0]))
  /\ [][( /\ Drawn(canvas) /\ Drawn(canvas')
          /\ imgElement' = imgElement
          /\ selectedFilter' # selectedFilter
          /\ rotation' = rotation )
        => canvas'.ops[1].transform = canvas.ops[1].transform]_vars
  /\ [][( /\ Drawn(canvas) /\ Drawn(canvas')
          /\ rotation' # rotation
          /\ <<brightness, contrast, saturation, selectedFilter>>'
               = <<brightness, contrast, saturation, selectedFilter>> )
        => canvas'.ops[1].filter = canvas.ops[1].filter]_vars

C17_Witness ==
  /\ Drawn(canvas)
  /\ rotation = -90
  /\ selectedFilter = "vintage"
  /\ textOverlay = "Hi"

\* C18: the selected format is one of mp4, mov, avi, webm and the selected
\* quality one of 4k, 1080p, 720p, 480p, each with its one resolution of the
\* table of qualities.
C18_ProfileEnumerated ==
  /\ selectedFormat \in {"mp4", "mov", "avi", "webm"}
  /\ selectedQuality \in {"4k", "1080p", "720p", "480p"}
  /\ selectedQuality \in DOMAIN qualityResolution
  /\ qualityResolution[selectedQuality]
       \in {<<3840, 2160>>, <<1920, 1080>>, <<1280, 720>>, <<854, 480>>}
  /\ \A q \in DOMAIN qualityResolution :
       qualityResolution[q] = qualityResolution[selectedQuality] => q = selectedQuality

C18_Witness ==
  /\ isExporting
  /\ selectedFormat = "webm"
  /\ selectedQuality = "480p"

\* C19: a source image of width 0 or height 0 is rejected: no frame, no
\* clip asset and no timeline item is made from it.
C19_ZeroAreaRejected ==
  ZeroArea(selectedImages[1]) =>
    /\ clipPreview = NoFrame
    /\ createdAsset = NoAsset
    /\ timelineItems = <<>>

\* C20: a step that adds an asset to the timeline (a library click or the
\* end of a clip creation) appends exactly one item and keeps every item
\* that is in the timeline at that moment.
C20_AddsKeepItems ==
  [][( \/ isCreatingClip /\ ~isCreatingClip'
       \/ Len(timelineItems') > Len(timelineItems) )
     => /\ Len(timelineItems') = Len(timelineItems) + 1
        /\ SubSeq(timelineItems', 1, Len(timelineItems)) = timelineItems]_vars

\* C21: during one upload uploadProgress stays within [0,100] and does not
\* decrease from one step to the next (a step that starts a new upload
\* begins a new run); once at 100 it stays at 100 until onAudioUpload is
\* called.
C21_UploadProgressMonotone ==
  /\ [](uploadProgress >= 0 /\ uploadProgress <= 100)
  /\ [][(isUploading /\ isUploading') => uploadProgress' >= uploadProgress]_vars
  /\ [](uploadTimeout # 0 => uploadProgress = 100)

C23_PreviewHasItems ==
  currentStep = "preview" => Len(timelineItems) > 0

\* C24: every started clip creation ends: isCreatingClip returns to false,
\* whether the images load or fail to load.
C24_ClipCreationEnds == isCreatingClip ~> ~isCreatingClip

\* C25: a failed audio load ends the upload in a clean state: the step of
\* the error sets isUploading to false and the progress to 0 and hands no
\* audio over, and while nothing is uploading or uploaded the progress is 0
\* and no hand-over is pending.
C25_ErrorEndsClean ==
  /\ [][(audioLoading /\ ~audioLoading' /\ uploadTimeout' = 0) =>
         (~isUploading' /\ uploadProgress' = 0 /\ audioFile' = audioFile)]_vars
  /\ []((~isUploading /\ uploadedFile = 0) =>
         (uploadProgress = 0 /\ uploadTimeout = 0))

\* C26: a Remove removes exactly the one item it is clicked on: a step that
\* shortens the timeline leaves the previous timeline without one of its
\* items, all others present, in their order and unchanged.
C26_RemoveRemovesOne ==
  [][Len(timelineItems') < Len(timelineItems) =>
       \E i \in DOMAIN timelineItems :
         timelineItems' = SubSeq(timelineItems, 1, i - 1)
                            \o SubSeq(timelineItems, i + 1, Len(timelineItems))]_vars

\* C27: the asset a Save to Library hands over holds the render of the
\* selected image under the parameters of that moment, under the name
\* Edited_ followed by the name of the selected image.
C27_SavedImageCurrent ==
  [][CreatedCount(timelineItems', "Edited_") > CreatedCount(timelineItems, "Edited_") =>
       LET asset == timelineItems'[Len(timelineItems')].asset IN
         /\ asset.url = ToBlob(ApplyImageEdits(selectedImage, Params))
         /\ asset.name = <<"Edited_", selectedImage.name>>]_vars

\* C28: the profile of an export is fixed for the whole call: the pair
\* passed to onExport is the pair that was selected when handleExport was
\* started, whatever is selected while the export runs.
C28_ProfileFixed ==
  /\ [][(~isExporting /\ isExporting') =>
         keptProfile' = <<selectedFormat, selectedQuality>>]_vars
  /\ [][isExporting => keptProfile' = keptProfile]_vars
  /\ [][onExportCalls' > onExportCalls => exportedProfile' = keptProfile]_vars

C28_Witness ==
  /\ onExportCalls = 1
  /\ exportedProfile = <<"mp4", "1080p">>
  /\ selectedFormat = "webm"
  /\ selectedQuality = "4k"

\* C29: at most one export runs at a time: handleExport can be invoked only
\* while isExporting is false and no timer is set, a timer is set exactly
\* while an export runs, the progress goes back only by the start of an
\* export when none runs, and it advances by one timer step at a time.
C29_OneExportAtATime ==
  /\ []((ENABLED handleExport) => (~isExporting /\ ~progressInterval))
  /\ [](progressInterval <=> isExporting)
  /\ [][exportProgress' < exportProgress => (~isExporting /\ isExporting')]_vars
  /\ [][exportProgress' > exportProgress =>
         (progressInterval /\ exportProgress' = exportProgress + ProgressStep)]_vars

C29_Witness ==
  /\ isExporting
  /\ exportProgress = 50
  /\ keptProfile = <<"mov", "720p">>
  /\ selectedFormat = "avi"

\* C30: after Reset every parameter of the editor has its initial value:
\* brightness, contrast and saturation 100, no filter, rotation 0, no
\* overlay text, text colour #ffffff and text size 24.
C30_ResetRestoresInitial ==
  [][Reset =>
       /\ brightness' = 100
       /\ contrast' = 100
       /\ saturation' = 100
       /\ selectedFilter' = "none"
       /\ rotation' = 0
       /\ textOverlay' = ""
       /\ textColor' = "#ffffff"
       /\ textSize' = 24]_vars

====
